---- MODULE Spec2Model ----
(***************************************************************************)
(* Model of download-tranco-1m-for-year.py: configuration resolution,      *)
(* the date enumerator, the thread pool running fetch_one once per day,    *)
(* the lock-protected merge into `uniques`, and the sorted write.          *)
(*                                                                         *)
(* Text (command-line strings, environment values, domain names) is a      *)
(* sequence of one-character strings.  A date object is the triple         *)
(* <<year, month, day>> that datetime.date stores.  An absent optional     *)
(* (None, or an unset environment variable) is the empty tuple <<>>; a     *)
(* present integer n is <<n>>.                                             *)
(***************************************************************************)
EXTENDS Integers, Sequences, FiniteSets, TLC

VARIABLES
    args,        \* argparse namespace: [start, end, workers]
    env,         \* os.environ["TR_DOWNLOAD_WORKERS"]: <<>> unset, <<text>> set
    today,       \* what date.today() returns
    pc,          \* position of the main thread
    end_dt,      \* resolved end date, <<>> before resolution
    start_dt,    \* resolved start date, <<>> before resolution
    workers,     \* resolved worker count, <<>> before resolution
    pool,        \* max_workers of the ThreadPoolExecutor, <<>> before it exists
    created,     \* TRUE once tr, uniques and set_lock exist (lines 116-120)
    uniques,     \* the shared set of domains
    set_lock,    \* 0 when free, else the index of the task holding it
    cur,         \* daterange's cursor
    dates,       \* list(daterange(start_dt, end_dt)) as built so far
    futures,     \* one record per submitted task, in submission order
    yielded,     \* futures as_completed has handed to the main loop
    bar,         \* tqdm progress counter
    errlog,      \* days for which fetch_one wrote an ERROR line
    writable,    \* whether the output directory and file can be created
    dirMade,     \* os.makedirs has run
    fh,          \* "none", "open" or "closed"
    pending,     \* sorted(uniques) still to be written
    lines,       \* lines written to the output file
    total        \* the printed total, <<>> before it is printed

vars == <<args, env, today, pc, end_dt, start_dt, workers, pool, created,
          uniques, set_lock, cur, dates, futures, yielded, bar, errlog,
          writable, dirMade, fh, pending, lines, total>>

Absent == <<>>

(***************************************************************************)
(* Text helpers                                                            *)
(***************************************************************************)
Digits == {"0", "1", "2", "3", "4", "5", "6", "7", "8", "9"}

DigitVal(c) ==
    CASE c = "0" -> 0 [] c = "1" -> 1 [] c = "2" -> 2 [] c = "3" -> 3
      [] c = "4" -> 4 [] c = "5" -> 5 [] c = "6" -> 6 [] c = "7" -> 7
      [] c = "8" -> 8 [] c = "9" -> 9

DigitChar(n) ==
    CASE n = 0 -> "0" [] n = 1 -> "1" [] n = 2 -> "2" [] n = 3 -> "3"
      [] n = 4 -> "4" [] n = 5 -> "5" [] n = 6 -> "6" [] n = 7 -> "7"
      [] n = 8 -> "8" [] n = 9 -> "9"

AllDigits(s) == \A i \in 1..Len(s) : s[i] \in Digits

RECURSIVE ToNat(_)
ToNat(s) ==
    IF s = <<>> THEN 0
    ELSE 10 * ToNat(SubSeq(s, 1, Len(s) - 1)) + DigitVal(s[Len(s)])

\* The decimal digits of n, zero-padded on the left to `width` characters.
RECURSIVE Pad(_, _)
Pad(n, width) ==
    IF width <= 1 /\ n < 10 THEN <<DigitChar(n)>>
    ELSE Pad(n \div 10, width - 1) \o <<DigitChar(n % 10)>>

\* s split at every "-".
RECURSIVE SplitDash(_)
SplitDash(s) ==
    IF \A i \in 1..Len(s) : s[i] # "-" THEN <<s>>
    ELSE LET k == CHOOSE i \in 1..Len(s) :
                      s[i] = "-" /\ \A j \in 1..(i - 1) : s[j] # "-"
         IN  <<SubSeq(s, 1, k - 1)>> \o SplitDash(SubSeq(s, k + 1, Len(s)))

\* int(text): an optional sign followed by at least one digit; anything
\* else raises ValueError.
IntOf(s) ==
    LET body == IF s # <<>> /\ s[1] \in {"-", "+"} THEN Tail(s) ELSE s
    IN  IF body = <<>> \/ ~AllDigits(body)
        THEN [ok |-> FALSE, val |-> 0]
        ELSE [ok |-> TRUE,
              val |-> IF s[1] = "-" THEN 0 - ToNat(body) ELSE ToNat(body)]

(***************************************************************************)
(* datetime.date                                                           *)
(***************************************************************************)
IsLeap(y) == y % 4 = 0 /\ (y % 100 # 0 \/ y % 400 = 0)

DaysInMonth(y, m) ==
    IF m = 2 THEN (IF IsLeap(y) THEN 29 ELSE 28)
    ELSE IF m \in {4, 6, 9, 11} THEN 30 ELSE 31

RECURSIVE DaysBeforeMonth(_, _)
DaysBeforeMonth(y, m) ==
    IF m = 1 THEN 0 ELSE DaysBeforeMonth(y, m - 1) + DaysInMonth(y, m - 1)

DaysBeforeYear(y) ==
    LET p == y - 1 IN p * 365 + (p \div 4) - (p \div 100) + (p \div 400)

\* date.toordinal()
ToOrdinal(d) == DaysBeforeYear(d[1]) + DaysBeforeMonth(d[1], d[2]) + d[3]

\* date.fromordinal(n)
FromOrdinal(n) ==
    LET n0   == n - 1
        n400 == n0 \div 146097
        r400 == n0 % 146097
        n100 == r400 \div 36524
        r100 == r400 % 36524
        n4   == r100 \div 1461
        r4   == r100 % 1461
        n1   == r4 \div 365
        r1   == r4 % 365
        year == n400 * 400 + 1 + n100 * 100 + n4 * 4 + n1
        m0   == (r1 + 50) \div 32
        p0   == DaysBeforeMonth(year, m0)
        mon  == IF p0 > r1 THEN m0 - 1 ELSE m0
        prec == DaysBeforeMonth(year, mon)
    IN  IF n1 = 4 \/ n100 = 4 THEN <<year - 1, 12, 31>>
        ELSE <<year, mon, r1 - prec + 1>>

\* date.max
DateMax == <<9999, 12, 31>>

\* date + timedelta(days) raises OverflowError past date.max
Overflows(d, days) == ToOrdinal(d) + days > ToOrdinal(DateMax)

\* date + timedelta(days)
DateAdd(d, days) == FromOrdinal(ToOrdinal(d) + days)

\* date comparison: lexicographic on (year, month, day)
DateLT(a, b) ==
    \/ a[1] < b[1]
    \/ a[1] = b[1] /\ a[2] < b[2]
    \/ a[1] = b[1] /\ a[2] = b[2] /\ a[3] < b[3]

DateLE(a, b) == a = b \/ DateLT(a, b)

\* date.isoformat(): "%04d-%02d-%02d"
Isoformat(d) == Pad(d[1], 4) \o <<"-">> \o Pad(d[2], 2) \o <<"-">> \o Pad(d[3], 2)

\* datetime.strptime(text, "%Y-%m-%d").date(): three dash-separated fields,
\* a four-digit year, a one- or two-digit month in 1..12 and day in 1..31,
\* and then a day that exists in that month; anything else raises ValueError.
Strptime(s) ==
    LET f   == SplitDash(s)
        wf  == /\ Len(f) = 3
               /\ Len(f[1]) = 4 /\ AllDigits(f[1])
               /\ Len(f[2]) \in {1, 2} /\ AllDigits(f[2])
               /\ Len(f[3]) \in {1, 2} /\ AllDigits(f[3])
        y   == ToNat(f[1])
        m   == ToNat(f[2])
        d   == ToNat(f[3])
    IN  IF wf /\ y \in 1..DateMax[1] /\ m \in 1..12 /\ d >= 1 /\ d <= DaysInMonth(y, m)
        THEN [ok |-> TRUE, val |-> <<y, m, d>>]
        ELSE [ok |-> FALSE, val |-> <<>>]

(***************************************************************************)
(* Domain names and sorted()                                               *)
(***************************************************************************)
\* Code point of a character of a domain name.
Code(c) == CASE c = "." -> 46 [] c = "a" -> 97 [] c = "b" -> 98

\* str.__lt__: the first differing code point decides; a proper prefix is
\* smaller.
RECURSIVE LexLT(_, _)
LexLT(s, t) ==
    IF t = <<>> THEN FALSE
    ELSE IF s = <<>> THEN TRUE
    ELSE IF Code(s[1]) # Code(t[1]) THEN Code(s[1]) < Code(t[1])
    ELSE LexLT(Tail(s), Tail(t))

\* Variant: descending order.
RECURSIVE SortedDescending(_)
SortedDescending(S) ==
    IF S = {} THEN <<>>
    ELSE LET m == CHOOSE x \in S : \A y \in S \ {x} : LexLT(y, x)
         IN  <<m>> \o SortedDescending(S \ {m})

\* sorted(S): the elements of S in ascending order.
RECURSIVE Sorted(_)
Sorted(S) ==
    IF S = {} THEN <<>>
    ELSE LET m == CHOOSE x \in S : \A y \in S \ {x} : LexLT(x, y)
         IN  <<m>> \o Sorted(S \ {m})

Range(s) == {s[i] : i \in 1..Len(s)}

(***************************************************************************)
(* Inputs                                                                  *)
(***************************************************************************)
MaxDays == 3
DefaultWorkers == <<"8">>

StartArgs ==
    {Absent,
     <<"2","0","2","3","-","1","2","-","3","0">>,
     <<"2","0","2","3","-","1","2","-","3","1">>,
     <<"2","0","2","4","-","0","1","-","0","2">>,
     <<"2","0","2","3","-","0","2","-","2","9">>,
     <<"9","9","9","9","-","1","2","-","3","1">>}

EndArgs ==
    {Absent,
     <<"2","0","2","4","-","0","1","-","0","1">>,
     <<"0","1","/","0","1","/","2","4">>,
     <<"9","9","9","9","-","1","2","-","3","1">>}

WorkerArgs == {Absent, <<0>>, <<0 - 1>>, <<2>>}

EnvValues == {Absent, <<<<"0">>>>, <<<<"2">>>>, <<<<"x">>>>}

Todays == {<<2024, 1, 2>>}

DomA  == <<"a">>
DomAB == <<"a", "b">>
DomADotB == <<"a", ".", "b">>
DomB  == <<"b">>

\* What tr.list(date).top(1_000_000) may return for a day.
Lists == {<<DomB, DomA>>, <<DomA, DomADotB>>, <<DomAB>>}

\* Number of days the run would cover, 0 when configuration is rejected.
SpanOf(a, t) ==
    LET e == IF a.end # Absent THEN Strptime(a.end) ELSE [ok |-> TRUE, val |-> t]
        s == IF a.start # Absent THEN Strptime(a.start)
             ELSE IF e.ok THEN [ok |-> TRUE, val |-> <<e.val[1], 1, 1>>] ELSE e
    IN  IF e.ok /\ s.ok /\ DateLE(s.val, e.val)
        THEN ToOrdinal(e.val) - ToOrdinal(s.val) + 1 ELSE 0

Init ==
    /\ args \in [start : StartArgs, end : EndArgs, workers : WorkerArgs]
    /\ env \in EnvValues
    /\ today \in Todays
    /\ SpanOf(args, today) <= MaxDays
    /\ writable \in BOOLEAN
    /\ (~writable => args.workers = Absent /\ env = Absent)
    /\ pc = "resolve_end"
    /\ end_dt = Absent /\ start_dt = Absent /\ workers = Absent /\ pool = Absent
    /\ created = FALSE /\ uniques = {} /\ set_lock = 0
    /\ cur = Absent /\ dates = <<>> /\ futures = <<>>
    /\ yielded = {} /\ bar = 0 /\ errlog = {}
    /\ dirMade = FALSE /\ fh = "none" /\ pending = <<>> /\ lines = <<>>
    /\ total = Absent

inputs == <<args, env, today, writable>>
config == <<end_dt, start_dt, workers, pool>>
shared == <<created, uniques, set_lock>>
output == <<dirMade, fh, pending, lines, total>>
tasks  == <<futures, yielded, bar, errlog>>

(***************************************************************************)
(* main: configuration (lines 77-113)                                      *)
(***************************************************************************)
ResolveEnd ==
    /\ pc = "resolve_end"
    /\ IF args.end # Absent
       THEN LET r == Strptime(args.end)
            IN  IF r.ok THEN end_dt' = r.val /\ pc' = "resolve_start"
                ELSE end_dt' = end_dt /\ pc' = "exit"
       ELSE end_dt' = today /\ pc' = "resolve_start"
    /\ UNCHANGED <<inputs, start_dt, workers, pool, shared, cur, dates, tasks, output>>

ResolveStart ==
    /\ pc = "resolve_start"
    /\ IF args.start # Absent
       THEN LET r == Strptime(args.start)
            IN  IF r.ok THEN start_dt' = r.val /\ pc' = "check_range"
                ELSE start_dt' = start_dt /\ pc' = "exit"
       ELSE start_dt' = <<end_dt[1], 1, 1>> /\ pc' = "check_range"
    /\ UNCHANGED <<inputs, end_dt, workers, pool, shared, cur, dates, tasks, output>>

\* Variant: the range check is left out.
CheckRangeSkipped ==
    /\ pc = "check_range"
    /\ pc' = "workers"
    /\ UNCHANGED <<inputs, config, shared, cur, dates, tasks, output>>

CheckRange ==
    /\ pc = "check_range"
    /\ pc' = IF DateLT(end_dt, start_dt) THEN "exit" ELSE "workers"
    /\ UNCHANGED <<inputs, config, shared, cur, dates, tasks, output>>

Max(a, b) == IF a >= b THEN a ELSE b

\* args.workers or int(os.getenv("TR_DOWNLOAD_WORKERS", "8")), then max(.., 1)
ResolveWorkers ==
    /\ pc = "workers"
    /\ IF args.workers # Absent /\ args.workers[1] # 0
       THEN workers' = <<Max(args.workers[1], 1)>> /\ pc' = "setup"
       ELSE LET r == IntOf(IF env = Absent THEN DefaultWorkers ELSE env[1])
            IN  IF r.ok THEN workers' = <<Max(r.val, 1)>> /\ pc' = "setup"
                ELSE workers' = workers /\ pc' = "crash"
    /\ UNCHANGED <<inputs, end_dt, start_dt, pool, shared, cur, dates, tasks, output>>

(***************************************************************************)
(* main: shared state and the task list (lines 116-134)                    *)
(***************************************************************************)
Setup ==
    /\ pc = "setup"
    /\ created' = TRUE /\ uniques' = {} /\ set_lock' = 0
    /\ cur' = start_dt
    /\ pc' = "daterange"
    /\ UNCHANGED <<inputs, config, dates, tasks, output>>

\* One turn of daterange's while loop, consumed by list(): the date is
\* yielded, then cur += one_day; past date.max that addition raises
\* OverflowError, which nothing catches.
DaterangeStep ==
    /\ pc = "daterange"
    /\ IF DateLE(cur, end_dt)
       THEN /\ dates' = Append(dates, cur)
            /\ IF Overflows(cur, 1) THEN cur' = cur /\ pc' = "crash"
               ELSE cur' = DateAdd(cur, 1) /\ pc' = pc
       ELSE dates' = dates /\ cur' = cur /\ pc' = "pool"
    /\ UNCHANGED <<inputs, config, shared, tasks, output>>

(***************************************************************************)
(* main: the pool and the submissions (lines 136-138)                      *)
(***************************************************************************)
\* ThreadPoolExecutor(max_workers=workers) rejects max_workers <= 0.
OpenPool ==
    /\ pc = "pool"
    /\ IF workers[1] <= 0 THEN pool' = pool /\ pc' = "crash"
       ELSE pool' = workers /\ pc' = "submit"
    /\ UNCHANGED <<inputs, end_dt, start_dt, workers, shared, cur, dates, tasks, output>>

\* pool.submit(fetch_one, d) for the next d of dates; workers may already be
\* running earlier submissions.
Submit ==
    /\ pc = "submit"
    /\ IF Len(futures) < Len(dates)
       THEN /\ futures' = Append(futures,
                 [day |-> dates[Len(futures) + 1], st |-> "queued",
                  req |-> <<>>, daily_set |-> {}])
            /\ pc' = pc
       ELSE futures' = futures /\ pc' = "wait"
    /\ UNCHANGED <<inputs, config, shared, cur, dates, yielded, bar, errlog, output>>

(***************************************************************************)
(* fetch_one on a pool thread (lines 122-131)                              *)
(***************************************************************************)
Tasks == 1..Len(futures)

InFlight == {"running", "fetched", "locked", "merged", "raised"}

Finished == {"ok", "error"}

Busy == Cardinality({t \in Tasks : futures[t].st \in InFlight})

SetSt(t, st) == [futures EXCEPT ![t].st = st]

\* A pool thread takes the oldest queued work item; at most max_workers
\* threads exist.
Start(t) ==
    /\ pool # Absent
    /\ futures[t].st = "queued"
    /\ \A u \in 1..(t - 1) : futures[u].st # "queued"
    /\ Busy < pool[1]
    /\ futures' = SetSt(t, "running")
    /\ UNCHANGED <<inputs, pc, config, shared, cur, dates, yielded, bar, errlog, output>>

\* set(tr.list(date=day.isoformat()).top(1_000_000)): the provider answers
\* with a list, or the retrieval or the parsing raises.
Fetch(t) ==
    /\ futures[t].st = "running"
    /\ \/ \E l \in Lists :
             futures' = [futures EXCEPT ![t].st = "fetched",
                                        ![t].req = Isoformat(futures[t].day),
                                        ![t].daily_set = Range(l)]
       \/ futures' = [futures EXCEPT ![t].st = "raised",
                                     ![t].req = Isoformat(futures[t].day)]
    /\ UNCHANGED <<inputs, pc, config, shared, cur, dates, yielded, bar, errlog, output>>

\* Variant: the merge is entered without waiting for the lock.
AcquireNoWait(t) ==
    /\ futures[t].st = "fetched"
    /\ set_lock' = t
    /\ futures' = SetSt(t, "locked")
    /\ UNCHANGED <<inputs, pc, config, created, uniques, cur, dates, yielded, bar,
                   errlog, output>>

\* with set_lock: (enter)
Acquire(t) ==
    /\ futures[t].st = "fetched"
    /\ set_lock = 0
    /\ set_lock' = t
    /\ futures' = SetSt(t, "locked")
    /\ UNCHANGED <<inputs, pc, config, created, uniques, cur, dates, yielded, bar,
                   errlog, output>>

\* Variant: the day's set replaces uniques instead of being merged into it.
UpdateOverwrite(t) ==
    /\ futures[t].st = "locked"
    /\ uniques' = futures[t].daily_set
    /\ futures' = SetSt(t, "merged")
    /\ UNCHANGED <<inputs, pc, config, created, set_lock, cur, dates, yielded, bar,
                   errlog, output>>

\* uniques.update(daily_set)
Update(t) ==
    /\ futures[t].st = "locked"
    /\ uniques' = uniques \cup futures[t].daily_set
    /\ futures' = SetSt(t, "merged")
    /\ UNCHANGED <<inputs, pc, config, created, set_lock, cur, dates, yielded, bar,
                   errlog, output>>

\* with set_lock: (leave), then return "ok"
Release(t) ==
    /\ futures[t].st = "merged"
    /\ set_lock' = 0
    /\ futures' = SetSt(t, "ok")
    /\ UNCHANGED <<inputs, pc, config, created, uniques, cur, dates, yielded, bar,
                   errlog, output>>

\* Variant: the failure is not caught and ends the run.
ExceptFatal(t) ==
    /\ futures[t].st = "raised"
    /\ errlog' = errlog \cup {futures[t].day}
    /\ futures' = SetSt(t, "error")
    /\ pc' = "crash"
    /\ UNCHANGED <<inputs, config, shared, cur, dates, yielded, bar, output>>

\* except Exception: tqdm.write(...); return "error"
Except(t) ==
    /\ futures[t].st = "raised"
    /\ errlog' = errlog \cup {futures[t].day}
    /\ futures' = SetSt(t, "error")
    /\ UNCHANGED <<inputs, pc, config, shared, cur, dates, yielded, bar, output>>

(***************************************************************************)
(* main: as_completed loop and the end of the with block (lines 139-141)   *)
(***************************************************************************)
\* as_completed hands over a finished future; fut.result(); bar.update(1)
Collect(t) ==
    /\ pc = "wait"
    /\ t \notin yielded
    /\ futures[t].st \in Finished
    /\ yielded' = yielded \cup {t}
    /\ bar' = bar + 1
    /\ UNCHANGED <<inputs, pc, config, shared, cur, dates, futures, errlog, output>>

\* Variant: the main thread moves on after the first finished future.
LeavePoolEarly ==
    /\ pc = "wait"
    /\ yielded # {} \/ Tasks = {}
    /\ pc' = "makedirs"
    /\ UNCHANGED <<inputs, config, shared, cur, dates, tasks, output>>

\* as_completed is exhausted once every future was handed over; leaving the
\* with block shuts the pool down.
LeavePool ==
    /\ pc = "wait"
    /\ yielded = Tasks
    /\ pc' = "makedirs"
    /\ UNCHANGED <<inputs, config, shared, cur, dates, tasks, output>>

(***************************************************************************)
(* main: output (lines 143-150)                                            *)
(***************************************************************************)
\* os.makedirs(..., exist_ok=True); an OSError is not caught.
MakeDirs ==
    /\ pc = "makedirs"
    /\ IF writable THEN dirMade' = TRUE /\ pc' = "open"
       ELSE dirMade' = dirMade /\ pc' = "crash"
    /\ UNCHANGED <<inputs, config, shared, cur, dates, tasks, fh, pending, lines, total>>

\* open(outfile, "w") truncates; the for statement evaluates sorted(uniques).
OpenFile ==
    /\ pc = "open"
    /\ fh' = "open" /\ lines' = <<>>
    /\ pending' = Sorted(uniques)
    /\ pc' = "write"
    /\ UNCHANGED <<inputs, config, shared, cur, dates, tasks, dirMade, total>>

\* fh.write(f"{domain}\n") for the next domain; the file closes after the last.
WriteLine ==
    /\ pc = "write"
    /\ IF pending # <<>>
       THEN /\ lines' = Append(lines, Head(pending) \o <<"\n">>)
            /\ pending' = Tail(pending)
            /\ fh' = fh /\ pc' = pc
       ELSE /\ fh' = "closed" /\ pc' = "print"
            /\ lines' = lines /\ pending' = pending
    /\ UNCHANGED <<inputs, config, shared, cur, dates, tasks, dirMade, total>>

\* print(f"Total unique domains: {len(uniques):,}")
PrintTotal ==
    /\ pc = "print"
    /\ total' = <<Cardinality(uniques)>>
    /\ pc' = "done"
    /\ UNCHANGED <<inputs, config, shared, cur, dates, tasks, dirMade, fh, pending, lines>>

Worker(t) ==
    \/ Start(t)
    \/ Fetch(t)
    \/ Acquire(t)
    \/ Update(t)
    \/ Release(t)
    \/ Except(t)

Main ==
    \/ ResolveEnd
    \/ ResolveStart
    \/ CheckRange
    \/ ResolveWorkers
    \/ Setup
    \/ DaterangeStep
    \/ OpenPool
    \/ Submit
    \/ LeavePool
    \/ MakeDirs
    \/ OpenFile
    \/ WriteLine
    \/ PrintTotal

Next ==
    \/ Main
    \/ \E t \in Tasks : Worker(t)
    \/ \E t \in Tasks : Collect(t)

Spec == Init /\ [][Next]_vars

(***************************************************************************)
(* The date enumerator on its own: daterange applied to arbitrary pairs of *)
(* dates, followed by the submissions made from its result.                *)
(***************************************************************************)
MaxSpan == 5

Years == {1900, 2000, 2023, 2024, 9999}

IsDate(d) ==
    d[1] \in 1..DateMax[1] /\ d[2] \in 1..12 /\ d[3] \in 1..DaysInMonth(d[1], d[2])

Calendar == {d \in Years \X (1..12) \X (1..31) : IsDate(d)}

\* The dates of the month of d and of the months before and after it.
Around(d) ==
    LET prev == IF d[2] = 1 THEN <<d[1] - 1, 12>> ELSE <<d[1], d[2] - 1>>
        next == IF d[2] = 12 THEN <<d[1] + 1, 1>> ELSE <<d[1], d[2] + 1>>
    IN  {e \in {<<ym[1], ym[2], dd>> : ym \in {prev, <<d[1], d[2]>>, next},
                                        dd \in 1..31} : IsDate(e)}

InitDaterange ==
    /\ args = [start |-> Absent, end |-> Absent, workers |-> Absent]
    /\ env = Absent /\ today \in Todays /\ writable = TRUE
    /\ start_dt \in Calendar
    /\ end_dt \in {d \in Around(start_dt) :
                     /\ ToOrdinal(d) - ToOrdinal(start_dt) < MaxSpan
                     /\ ToOrdinal(start_dt) - ToOrdinal(d) <= 2}
    /\ workers = <<1>> /\ pool = Absent
    /\ created = TRUE /\ uniques = {} /\ set_lock = 0
    /\ cur = start_dt /\ dates = <<>> /\ futures = <<>>
    /\ pc = "daterange"
    /\ yielded = {} /\ bar = 0 /\ errlog = {}
    /\ dirMade = FALSE /\ fh = "none" /\ pending = <<>> /\ lines = <<>>
    /\ total = Absent

NextDaterange ==
    \/ DaterangeStep
    \/ OpenPool
    \/ Submit

SpecDaterange == InitDaterange /\ [][NextDaterange]_vars

(***************************************************************************)
(* The whole run under fair scheduling: some enabled step of the main      *)
(* thread or of a pool thread is eventually taken.                         *)
(***************************************************************************)
InitFair ==
    /\ Init
    /\ args.workers = Absent
    /\ env \in {Absent, <<<<"2">>>>}

FairSpec == InitFair /\ [][Next]_vars /\ WF_vars(Next)

(***************************************************************************)
(* Properties                                                              *)
(***************************************************************************)
AllSubmitted == Len(futures) = Len(dates)

AllFinished == AllSubmitted /\ \A t \in Tasks : futures[t].st \in Finished

\* The domain named by a written line (the line without its newline).
Chomp(l) == SubSeq(l, 1, Len(l) - 1)

Written == {Chomp(lines[i]) : i \in 1..Len(lines)}

OkTasks == {t \in Tasks : futures[t].st = "ok"}

OkUnion == UNION {futures[t].daily_set : t \in OkTasks}

OutputStage == {"makedirs", "open", "write", "print", "done"}

\* C1: once the file is written, the set of written domains is exactly the
\* union of the per-day sets of the days whose fetch succeeded, whatever the
\* range, the outcomes, the worker count and the interleaving were.
C1_WrittenIsUnion ==
    pc \in {"print", "done"} =>
        /\ AllFinished
        /\ \A t \in Tasks : futures[t].st = "ok" <=> futures[t].day \notin errlog
        /\ Written = OkUnion

C1_Witness ==
    /\ pc = "done"
    /\ pool[1] >= 2
    /\ Len(dates) = 3
    /\ \E t, u \in OkTasks :
          /\ futures[t].daily_set \ futures[u].daily_set # {}
          /\ futures[u].daily_set \ futures[t].daily_set # {}
    /\ Cardinality(Written) = 3

Failed == {"raised", "error"}

\* C2: a task whose fetch raised stays on the failure path: handling the
\* failure changes neither uniques nor the lock, nor the main thread, nor
\* any sibling; every date still gets its task, every task still finishes,
\* and what reaches the output stage is the union of the days that succeeded.
C2_Step ==
    \A t \in Tasks :
        futures[t].st \in Failed =>
            /\ futures'[t].st \in Failed
            /\ futures'[t].daily_set = {}
            /\ futures'[t].st # futures[t].st =>
                  /\ futures'[t].st = "error"
                  /\ uniques' = uniques /\ set_lock' = set_lock /\ pc' = pc
                  /\ \A u \in Tasks \ {t} : futures'[u] = futures[u]

C2_Inv ==
    /\ \A t \in Tasks : set_lock = t => futures[t].st \notin Failed
    /\ pc \in OutputStage =>
          /\ AllFinished
          /\ uniques = OkUnion

C2_FailureContained == []C2_Inv /\ [][C2_Step]_vars

C2_Witness ==
    /\ pc = "done"
    /\ Len(futures) = 3
    /\ futures[1].st = "ok" /\ futures[2].st = "error" /\ futures[3].st = "ok"
    /\ futures[1].daily_set # futures[3].daily_set
    /\ Written = futures[1].daily_set \cup futures[3].daily_set

\* C3: whenever the output directory or file exists or is being written,
\* every date has its task and every task has finished; uniques no longer
\* changes from the moment the output stage is entered.
C3_Inv ==
    (pc \in OutputStage \/ dirMade \/ fh # "none" \/ lines # <<>>) => AllFinished

C3_Step == pc \in OutputStage => uniques' = uniques /\ futures' = futures

C3_WriteAfterAllTasks == []C3_Inv /\ [][C3_Step]_vars

C3_Witness ==
    /\ pc = "write" /\ fh = "open" /\ lines # <<>> /\ pending # <<>>
    /\ Len(futures) = 3
    /\ \E t \in Tasks : futures[t].st = "error"

\* Configuration that is accepted: the supplied dates parse and are in
\* order, the environment value parses when it is consulted, and the output
\* path can be created.
ValidConfig ==
    /\ SpanOf(args, today) > 0
    /\ (args.workers = Absent \/ args.workers[1] = 0) =>
          IntOf(IF env = Absent THEN DefaultWorkers ELSE env[1]).ok
    /\ writable

Completed ==
    /\ pc = "done" /\ total # Absent /\ fh = "closed"
    /\ AllFinished /\ set_lock = 0

\* C4: with a valid configuration, under fair scheduling, the run ends with
\* every task finished, the lock free, the file written and the total
\* reported; the main thread never ends in an error on the way.
C4_RunCompletes ==
    /\ ValidConfig => <>Completed
    /\ [](ValidConfig => pc \notin {"exit", "crash"})

\* The same for the configurations whose end date is before date.max.
C4_CompletesBelowMax ==
    /\ (ValidConfig /\ args.end # Isoformat(DateMax)) => <>Completed
    /\ [](ValidConfig /\ args.end # Isoformat(DateMax) => pc \notin {"exit", "crash"})

\* A completed run in which one day failed and another succeeded.
C4_Witness ==
    /\ Completed
    /\ Len(futures) = 3
    /\ \E t \in Tasks : futures[t].st = "error"
    /\ \E t \in Tasks : futures[t].st = "ok"

Untouched ==
    /\ ~created /\ uniques = {} /\ set_lock = 0 /\ pool = Absent
    /\ dates = <<>> /\ futures = <<>> /\ errlog = {}
    /\ ~dirMade /\ fh = "none" /\ lines = <<>> /\ total = Absent

\* C5: when the resolved start is later than the resolved end, the run goes
\* from the range check to the error exit and stops there, with no pool, no
\* task, no set and no output; a defaulted start is never later than the end.
C5_RangeErrorBeforeWork ==
    /\ (start_dt # Absent /\ end_dt # Absent /\ DateLT(end_dt, start_dt)) =>
          /\ pc \in {"check_range", "exit"}
          /\ Untouched
          /\ pc = "exit" => ~ENABLED Next
    /\ (start_dt # Absent /\ args.start = Absent) => DateLE(start_dt, end_dt)

C5_Witness ==
    /\ pc = "exit"
    /\ start_dt # Absent /\ end_dt # Absent /\ DateLT(end_dt, start_dt)

\* C6: when --workers is supplied, the resolved worker count is the flag's
\* value clamped to at least 1, whatever the environment holds.
C6_FlagAlone ==
    (args.workers # Absent /\ workers # Absent) =>
        workers[1] = Max(args.workers[1], 1)

\* The value the configuration asks for: the flag when supplied, else the
\* environment's integer, else the default.
Configured ==
    IF args.workers # Absent THEN args.workers[1]
    ELSE IntOf(IF env = Absent THEN DefaultWorkers ELSE env[1]).val

\* C7: the resolved worker count and the pool size are at least 1, and a
\* configured value of 0 or less resolves to exactly 1.
C7_ClampedToOne ==
    /\ workers # Absent => workers[1] >= 1
    /\ pool # Absent => pool[1] >= 1
    /\ (workers # Absent /\ Configured <= 0) => workers[1] = 1

\* The worker count is at least 1 wherever it is resolved.
AtLeastOneWorker ==
    /\ workers # Absent => workers[1] >= 1
    /\ pool # Absent => pool[1] >= 1 /\ pool = workers

Expected ==
    IF DateLE(start_dt, end_dt)
    THEN ToOrdinal(end_dt) - ToOrdinal(start_dt) + 1 ELSE 0

\* C8: daterange(start, end) never raises and stops after yielding end - start + 1 dates when
\* start <= end: start first, end last, each a calendar date one day after
\* the one before; it yields nothing when start > end; and one task is
\* submitted per yielded date, in that order.
C8_Daterange ==
    /\ pc # "crash"
    /\ Len(dates) <= Expected
    /\ \A i \in 1..Len(dates) :
          /\ IsDate(dates[i])
          /\ ToOrdinal(dates[i]) = ToOrdinal(start_dt) + i - 1
          /\ i > 1 => DateLT(dates[i - 1], dates[i])
    /\ pc # "daterange" =>
          /\ Len(dates) = Expected
          /\ Expected > 0 => dates[1] = start_dt /\ dates[Len(dates)] = end_dt
    /\ Len(futures) <= Len(dates)
    /\ \A i \in 1..Len(futures) : futures[i].day = dates[i]
    /\ pc = "wait" => Len(futures) = Len(dates)

\* The same for the end dates before date.max.
C8_BelowMax == end_dt # DateMax => C8_Daterange

\* A full-length range across a year's end, every date submitted.
C8_Witness ==
    /\ pc = "wait"
    /\ Len(futures) = MaxSpan
    /\ start_dt[1] # end_dt[1]

\* An empty range: start later than end, nothing yielded.
C8_WitnessEmpty ==
    /\ pc = "wait" /\ DateLT(end_dt, start_dt) /\ dates = <<>>

\* C9: after the write loop the lines are the elements of uniques, each
\* once and newline-terminated, in strictly ascending order, and the
\* printed total is the number of lines.
C9_SortedOutput ==
    /\ \A i \in 1..Len(lines) : lines[i][Len(lines[i])] = "\n"
    /\ \A i \in 1..(Len(lines) - 1) : LexLT(Chomp(lines[i]), Chomp(lines[i + 1]))
    /\ Written \subseteq uniques
    /\ pc \in {"print", "done"} =>
          /\ Written = uniques
          /\ Len(lines) = Cardinality(uniques)
    /\ total # Absent => total[1] = Len(lines)

C9_Witness ==
    /\ pc = "done"
    /\ Len(lines) = 4
    /\ total = <<4>>

InMerge == {t \in Tasks : futures[t].st \in {"locked", "merged"}}

C10_Inv ==
    /\ Cardinality(InMerge) <= 1
    /\ \A t \in Tasks : set_lock = t <=> t \in InMerge
    /\ set_lock # 0 => set_lock \in Tasks
    /\ pc \in OutputStage => set_lock = 0

C10_Step ==
    /\ uniques \subseteq uniques'
    /\ uniques' # uniques =>
          /\ set_lock # 0 /\ set_lock' = set_lock
          /\ futures[set_lock].st = "locked"
          /\ uniques' = uniques \cup futures[set_lock].daily_set

\* C10: uniques changes only by the lock holder's update and only grows; at
\* most one task is between acquiring and releasing the lock, the lock is
\* held by no task that is fetching, and it is free once every task is done.
C10_LockedMerge == []C10_Inv /\ [][C10_Step]_vars

\* Two fetches in progress while a third task holds the lock.
C10_Witness ==
    /\ Cardinality({t \in Tasks : futures[t].st = "running"}) >= 2
    /\ set_lock # 0
    /\ pool[1] >= 2

====
